---- MODULE Spec2Model ----
(***************************************************************************)
(* A model of mage-svc (src/mage-svc.go): a local service is started,      *)
(* stopped and queried through a pid file.  The state is the operating     *)
(* system as the package sees it (the pid file, the process table, the     *)
(* clock and the boot time) and, for every mage invocation, the position   *)
(* of the call it is executing together with the locals of that call.      *)
(*                                                                         *)
(* Times are counted in ticks of 1/TicksPerSec second.  The clock advances  *)
(* while the package runs; unix.Sysinfo_t.Uptime is the elapsed time since *)
(* the boot in whole seconds, rounded up, and every mage invocation reads  *)
(* it once and keeps what it read.                                         *)
(***************************************************************************)
EXTENDS Integers, Sequences, FiniteSets, TLC

\* ------------------------------------------------------------------ bounds
MaxPid == 3          \* pids 2..MaxPid can be handed out by the OS
MaxChecks == 2       \* a configuration has 0..MaxChecks readiness checks
MaxRounds == 2       \* poll rounds one call of check may run
MaxArgs == 2         \* arguments one Run option is given
TicksPerSec == 2     \* clock ticks per second of uptime
MaxTicks == 1        \* ticks the clock advances after the initial state

Callers == {1, 2}    \* mage invocations that may drive the service
Solo == {1}          \* the invocation that acts under Spec
Pids == 2..MaxPid    \* pids of ordinary processes; pid 1 is init
NoProcess == 0       \* a nil *os.Process
ZeroTime == -1       \* time.Time{}: before every time of the clock
NoFile == [exists |-> FALSE]
NoSysinfo == [set |-> FALSE, err |-> FALSE, uptime |-> 0]  \* Once not yet done
Nil == [isnil |-> TRUE, list |-> <<>>]          \* a nil []string
Slice(l) == [isnil |-> FALSE, list |-> l]       \* a []string that is not nil

\* ----------------------------------------------------- strconv.Itoa / Atoi
DigitChars == <<"0", "1", "2", "3", "4", "5", "6", "7", "8", "9">>

DigitOf(ch) == (CHOOSE i \in 1..10 : DigitChars[i] = ch) - 1

IsDigit(ch) == \E i \in 1..10 : DigitChars[i] = ch

RECURSIVE NatToStr(_)
NatToStr(n) ==
    IF n < 10 THEN <<DigitChars[n + 1]>>
    ELSE NatToStr(n \div 10) \o <<DigitChars[(n % 10) + 1]>>

\* strconv.Itoa: decimal text, a leading "-" for a negative number.
Itoa(n) == IF n < 0 THEN <<"-">> \o NatToStr(0 - n) ELSE NatToStr(n)

RECURSIVE DigitsVal(_)
DigitsVal(s) ==
    IF Len(s) = 0 THEN 0
    ELSE DigitsVal(SubSeq(s, 1, Len(s) - 1)) * 10 + DigitOf(s[Len(s)])

\* strconv.Atoi: an optional sign and then one or more decimal digits and
\* nothing else; anything else is an error.
Atoi(s) ==
    LET signed == Len(s) > 0 /\ s[1] \in {"+", "-"}
        body == IF signed THEN Tail(s) ELSE s
        ok == Len(body) > 0 /\ \A i \in 1..Len(body) : IsDigit(body[i])
    IN IF ok
       THEN [err |-> FALSE,
             val |-> IF signed /\ s[1] = "-" THEN 0 - DigitsVal(body)
                     ELSE DigitsVal(body)]
       ELSE [err |-> TRUE, val |-> 0]

\* The text of a sequence of characters.
RECURSIVE Join(_)
Join(s) == IF s = <<>> THEN "" ELSE Head(s) \o Join(Tail(s))

\* Contents a pid file can be found with when the package first looks at it.
FileContents ==
    { <<"x">>, <<"0">>, <<"1">>, <<"-", "1">> } \cup { Itoa(p) : p \in Pids }

VARIABLES
    \* ---- the operating system
    now,          \* the clock, in ticks
    boot,         \* the time the system booted, in ticks
    file,         \* the pid file: NoFile or [exists, content, mtime]
    proc,         \* process table: pid -> "none" | "running" | "zombie"
    parent,       \* pid -> the invocation it is a child of, 0 for init
    privileged,   \* signalling pid 1 is permitted (the caller is root)
    sysinfo,      \* per invocation: sysinfo and sysinfoErr behind getSysinfoOnce
    \* ---- the configuration
    nchecks,      \* len(cfg.checks)
    run,          \* cfg.run: [name, args, dir]; args is Nil or a Slice
    runs,         \* how many Run options have been applied to cfg
    panicked,     \* an option has panicked
    \* ---- each mage invocation
    pc,           \* position in the call it executes, "idle" between calls
    op,           \* the call: "none" | "start" | "stop" | "status"
    ctx,          \* ctx.Err() != nil
    ps,           \* check/stop: the *os.Process from getProcess, as its pid
    cmdPid,       \* start: cmd.Process.Pid, 0 before cmd.Start
    released,     \* start: cmd.Process.Release() has been called
    ready,        \* check: ready[i]
    unready,      \* check: unready
    rounds,       \* check: poll rounds run so far
    err,          \* what the last call returned, "nil" for success
    nfo,          \* Status: the snapshot being built or last returned
    \* ---- what each call did and saw, for the properties
    branch,       \* what the call's first liveness check answered
    invoked,      \* check: how often check i has been invoked in this call
    probed,       \* check: the invocations of this call in order, each
                  \*        [round, check, out]
    launched,     \* pids this call launched with cmd.Start
    killed,       \* pids this call delivered SIGKILL to
    pre,          \* the pid file, process table and time when the call began
    prev          \* the start or stop that returned last before this call:
                  \* [op, ok]

cfgVars == <<nchecks, run, runs, panicked>>
osVars == <<now, boot, file, proc, parent, privileged, cfgVars>>
checkVars == <<ps, ready, unready, rounds, invoked, probed>>
callVars == <<op, cmdPid, released, branch, launched, killed, pre, prev>>
vars == <<osVars, sysinfo, pc, ctx, checkVars, callVars, err, nfo>>

Outcomes == {"ok", "notready", "hard"}       \* what one readiness check answers
OpenOutcomes == {"ok", "openfail"}            \* os.OpenFile in ioutil.WriteFile
WriteOutcomes == {"ok", "writefail", "closefail"}  \* f.Write and f.Close
NoStatus == [pid |-> 0, started |-> ZeroTime, running |-> FALSE, ready |-> FALSE]
NoCall == [op |-> "none", ok |-> TRUE]
NoPre == [file |-> NoFile, proc |-> [p \in Pids |-> "none"], now |-> 0]

Upd(f, c, v) == [f EXCEPT ![c] = v]

\* New has built the configuration, with one Run option and any number of
\* checks.  The system has been up for a second.  The pid file is missing or
\* holds any of FileContents, written as the system came up or, where its
\* age can matter (it names an ordinary pid), before the boot, and then a
\* second or more before it (time 0): a reboot takes longer than the second
\* the uptime is counted in.  At most one process that no invocation launched is running;
\* the caller may be root, which is told apart only where it can matter,
\* with pid 1 in the pid file.  No invocation has asked for the uptime yet.
Init ==
    /\ boot = TicksPerSec
    /\ now = boot + TicksPerSec
    /\ sysinfo = [c \in Callers |-> NoSysinfo]
    /\ file \in {NoFile} \cup
                { f \in { [exists |-> TRUE, content |-> s, mtime |-> t] :
                             s \in FileContents, t \in {0, boot} } :
                      f.mtime = 0 => f.content \in { Itoa(p) : p \in Pids } }
    /\ proc \in { [p \in Pids |-> IF p \in live THEN "running" ELSE "none"] :
                     live \in {{}} \cup { {q} : q \in Pids } }
    /\ parent = [p \in Pids |-> 0]
    /\ privileged \in IF file.exists /\ file.content = <<"1">>
                       THEN BOOLEAN ELSE {FALSE}
    /\ nchecks \in 0..MaxChecks
    /\ run = [name |-> "nats-server", args |-> Slice(<<>>), dir |-> ""]
    /\ runs = 1
    /\ panicked = FALSE
    /\ pc = [c \in Callers |-> "idle"]
    /\ op = [c \in Callers |-> "none"]
    /\ ctx = [c \in Callers |-> FALSE]
    /\ ps = [c \in Callers |-> NoProcess]
    /\ cmdPid = [c \in Callers |-> 0]
    /\ released = [c \in Callers |-> FALSE]
    /\ ready = [c \in Callers |-> <<>>]
    /\ unready = [c \in Callers |-> 0]
    /\ rounds = [c \in Callers |-> 0]
    /\ err = [c \in Callers |-> "nil"]
    /\ nfo = [c \in Callers |-> NoStatus]
    /\ branch = [c \in Callers |-> "none"]
    /\ invoked = [c \in Callers |-> <<>>]
    /\ probed = [c \in Callers |-> <<>>]
    /\ launched = [c \in Callers |-> {}]
    /\ killed = [c \in Callers |-> {}]
    /\ pre = [c \in Callers |-> NoPre]
    /\ prev = [c \in Callers |-> NoCall]

\* ------------------------------------------------------------ the platform
\* ps.Signal(syscall.Signal(0)) on a process found by pid: nil exactly when a
\* process with that pid exists (a zombie still does) and may be signalled.
\* os.Process refuses pid -1 ("already released") and pid 0 ("not
\* initialized"); pid 1 may be signalled by root only.
Signal0(pid) ==
    CASE pid = 1 -> privileged
      [] pid \in Pids -> proc[pid] # "none"
      [] OTHER -> FALSE

\* The process table once SIGKILL has been delivered to p: a child of a
\* living invocation stays as a zombie until it is waited for, any other
\* process is reaped by init at once.
SigKill(pr, p) ==
    IF pr[p] = "running"
    THEN [pr EXCEPT ![p] = IF parent[p] \in Callers THEN "zombie" ELSE "none"]
    ELSE pr

\* ps.Wait() by invocation c: reaps p when p is its child, else fails.
Reap(pr, c, p) ==
    IF pr[p] = "zombie" /\ parent[p] = c THEN [pr EXCEPT ![p] = "none"] ELSE pr

\* A pid that names no process has no parent.
Orphan(pr) == [p \in Pids |-> IF pr[p] = "none" THEN 0 ELSE parent[p]]

\* ------------------------------------------------------------ the package
\* getPIDFile: (pid, mtime) of the pid file; mtime is taken before the
\* content is parsed and is kept when parsing fails.
getPIDFile ==
    IF ~file.exists THEN [pid |-> 0, mtime |-> ZeroTime]
    ELSE LET n == Atoi(file.content)
         IN IF n.err THEN [pid |-> 0, mtime |-> file.mtime]
            ELSE [pid |-> n.val, mtime |-> file.mtime]

\* unix.Sysinfo, line 393, when it succeeds: Uptime is the time since the
\* boot in whole seconds; the kernel rounds a started second up.
Uptime == (now - boot + TicksPerSec - 1) \div TicksPerSec

\* getSysinfo by an invocation whose sysinfo and sysinfoErr are cache: the
\* first call runs unix.Sysinfo, which fails or fills in the uptime, and
\* every later call returns what the first one left.
getSysinfo(cache, fails) ==
    IF cache.set THEN cache
    ELSE [set |-> TRUE, err |-> fails, uptime |-> IF fails THEN 0 ELSE Uptime]

\* err == nil && time.Since(start).Seconds() > float64(sys.Uptime)
OlderThanBoot(start, sys) ==
    /\ ~sys.err
    /\ start = ZeroTime \/ (now - start) > sys.uptime * TicksPerSec

\* getProcessByPID without the signal test, and without the uptime test.
getProcessByPIDNoSignal(pid, start, sys) ==
    IF OlderThanBoot(start, sys) THEN NoProcess ELSE pid

getProcessByPIDNoUptime(pid, start, sys) ==
    IF Signal0(pid) THEN pid ELSE NoProcess

\* getProcessByPID, lines 187-199; sys is what getSysinfo returned.
getProcessByPID(pid, start, sys) ==
    IF OlderThanBoot(start, sys) THEN NoProcess
    ELSE IF Signal0(pid) THEN pid ELSE NoProcess

\* getProcess by an invocation whose sysinfo is cache: the process, and the
\* sysinfo it leaves (getSysinfo is not reached with a pid below 2).
getProcess(cache, fails) ==
    LET r == getPIDFile
        sys == getSysinfo(cache, fails)
    IN IF r.pid < 2 THEN [ps |-> NoProcess, sys |-> cache]
       ELSE [ps |-> getProcessByPID(r.pid, r.mtime, sys), sys |-> sys]

\* ps.Kill() that signals nothing.
KillNothing(p, rel) == proc

\* cfg.kill, lines 251-254: ps.Kill() on the handle of the child the
\* invocation launched.  On a released handle it fails ("os: process
\* already released"), nothing is signalled and cfg.kill returns without
\* the Wait.
Kill(p, rel) == IF rel THEN proc ELSE SigKill(proc, p)

\* The error check i returns when it fails hard.
ProbeErr(i) == "ErrProbe" \o Join(Itoa(i))
HardErrors == { ProbeErr(i) : i \in 1..MaxChecks }

\* A pass that does not skip the checks that are ready.
RECURSIVE RunChecksNoSkip(_, _, _)
RunChecksNoSkip(i, outs, st) ==
    IF i > nchecks THEN st
    ELSE LET inv == [st.invoked EXCEPT ![i] = @ + 1]
             log == Append(st.log, [round |-> st.round, check |-> i,
                                    out |-> outs[i]])
         IN CASE outs[i] = "ok" ->
                   RunChecksNoSkip(i + 1, outs,
                             [st EXCEPT !.ready[i] = TRUE,
                                        !.unready = IF st.ready[i] THEN @
                                                    ELSE @ - 1,
                                        !.invoked = inv, !.log = log])
              [] outs[i] = "notready" ->
                   RunChecksNoSkip(i + 1, outs,
                             [st EXCEPT !.invoked = inv, !.log = log])
              [] OTHER -> [st EXCEPT !.invoked = inv, !.log = log,
                                     !.err = ProbeErr(i)]

\* A pass that goes on after a hard error as after ErrNotReady.
RECURSIVE RunChecksRetriesHard(_, _, _)
RunChecksRetriesHard(i, outs, st) ==
    IF i > nchecks THEN st
    ELSE IF st.ready[i] THEN RunChecksRetriesHard(i + 1, outs, st)
    ELSE LET inv == [st.invoked EXCEPT ![i] = @ + 1]
             log == Append(st.log, [round |-> st.round, check |-> i,
                                    out |-> outs[i]])
         IN CASE outs[i] = "ok" ->
                   RunChecksRetriesHard(i + 1, outs,
                             [st EXCEPT !.ready[i] = TRUE,
                                        !.unready = @ - 1,
                                        !.invoked = inv, !.log = log])
              [] OTHER ->
                   RunChecksRetriesHard(i + 1, outs,
                             [st EXCEPT !.invoked = inv, !.log = log])

\* A pass that takes a check off the count of unready ones whenever it
\* answers nil or ErrNotReady.
RECURSIVE RunChecksCountsNotReady(_, _, _)
RunChecksCountsNotReady(i, outs, st) ==
    IF i > nchecks THEN st
    ELSE IF st.ready[i] THEN RunChecksCountsNotReady(i + 1, outs, st)
    ELSE LET inv == [st.invoked EXCEPT ![i] = @ + 1]
             log == Append(st.log, [round |-> st.round, check |-> i,
                                    out |-> outs[i]])
         IN CASE outs[i] = "ok" ->
                   RunChecksCountsNotReady(i + 1, outs,
                             [st EXCEPT !.ready[i] = TRUE,
                                        !.unready = @ - 1,
                                        !.invoked = inv, !.log = log])
              [] outs[i] = "notready" ->
                   RunChecksCountsNotReady(i + 1, outs,
                             [st EXCEPT !.unready = @ - 1, !.invoked = inv, !.log = log])
              [] OTHER -> [st EXCEPT !.invoked = inv, !.log = log,
                                     !.err = ProbeErr(i)]

\* One pass of "for i, check := range cfg.checks" from index i on; outs[i] is
\* what check i answers if it is invoked.
RECURSIVE RunChecks(_, _, _)
RunChecks(i, outs, st) ==
    IF i > nchecks THEN st
    ELSE IF st.ready[i] THEN RunChecks(i + 1, outs, st)
    ELSE LET inv == [st.invoked EXCEPT ![i] = @ + 1]
             log == Append(st.log, [round |-> st.round, check |-> i,
                                    out |-> outs[i]])
         IN CASE outs[i] = "ok" ->
                   RunChecks(i + 1, outs,
                             [st EXCEPT !.ready[i] = TRUE,
                                        !.unready = @ - 1,
                                        !.invoked = inv, !.log = log])
              [] outs[i] = "notready" ->
                   RunChecks(i + 1, outs, [st EXCEPT !.invoked = inv, !.log = log])
              [] OTHER -> [st EXCEPT !.invoked = inv, !.log = log,
                                     !.err = ProbeErr(i)]

\* The loop's exit test off by one.
AllChecksPassedOffByOne(u) == u < 2

\* check, line 238: every check has answered nil once.
AllChecksPassed(u) == u < 1

\* The call of invocation c returns e.
Return(c, e) ==
    /\ pc' = Upd(pc, c, "returned")
    /\ err' = Upd(err, c, e)

\* A call of op o begins: its locals are fresh.
Begin(c, o, b, p) ==
    /\ pc[c] = "idle"
    /\ op' = Upd(op, c, o)
    /\ branch' = Upd(branch, c, b)
    /\ cmdPid' = Upd(cmdPid, c, 0)
    /\ released' = Upd(released, c, FALSE)
    /\ launched' = Upd(launched, c, {})
    /\ killed' = Upd(killed, c, {})
    /\ pre' = Upd(pre, c, [file |-> file, proc |-> proc, now |-> now])
    /\ ps' = Upd(ps, c, p)
    /\ ready' = Upd(ready, c, <<>>)
    /\ unready' = Upd(unready, c, 0)
    /\ rounds' = Upd(rounds, c, 0)
    /\ invoked' = Upd(invoked, c, <<>>)
    /\ probed' = Upd(probed, c, <<>>)
    /\ UNCHANGED prev

\* What the caller of cfg.check does with its result e.
\*   start, service found running: return cfg.check(ctx)
\*   start, after the launch:      on an error cfg.kill(cmd.Process), return it
\*                                 (the handle is released by then, so
\*                                 cfg.kill returns at its failed Kill)
\*   Status:                       nfo.Ready = (e == nil), return nfo
CheckReturn(c, e) ==
    /\ proc' = IF op[c] = "start" /\ branch[c] = "notrunning" /\ e # "nil"
               THEN Kill(cmdPid[c], released[c])
               ELSE proc
    /\ parent' = Orphan(proc')
    /\ nfo' = IF op[c] = "status"
              THEN Upd(nfo, c, [nfo[c] EXCEPT !.ready = (e = "nil")])
              ELSE nfo
    /\ Return(c, IF op[c] = "status" THEN "nil" ELSE e)
    /\ UNCHANGED <<now, boot, file, privileged, cfgVars>>

\* ---------------------------------------------------------------- start
\* start that takes the service for running while another start is between
\* its liveness check and its write of the pid file.
StartBeginLocked(c) ==
    \E fails \in BOOLEAN :
       LET busy == \E d \in Callers \ {c} : pc[d] \in {"launch", "open", "write"}
           r == getProcess(sysinfo[c], fails)
           running == busy \/ r.ps # NoProcess
       IN /\ Begin(c, "start", IF running THEN "running" ELSE "notrunning",
                   NoProcess)
          /\ sysinfo' = Upd(sysinfo, c, r.sys)
          /\ pc' = Upd(pc, c, IF running THEN "check" ELSE "launch")
          /\ UNCHANGED <<osVars, ctx, err, nfo>>

\* start, line 260: cfg.running()
StartBegin(c) ==
    \E fails \in BOOLEAN :
       LET r == getProcess(sysinfo[c], fails)
       IN /\ Begin(c, "start",
                   IF r.ps # NoProcess THEN "running" ELSE "notrunning",
                   NoProcess)
          /\ sysinfo' = Upd(sysinfo, c, r.sys)
          /\ pc' = Upd(pc, c, IF r.ps # NoProcess THEN "check" ELSE "launch")
          /\ UNCHANGED <<osVars, ctx, err, nfo>>

\* start, lines 264-274: cmd.Start().  It fails when the program cannot be
\* resolved, whatever the context; it then refuses to start a command whose
\* context is already done; otherwise the OS may or may not create the
\* process, under any free pid.
Launch(c) ==
    /\ pc[c] = "launch"
    /\ \/ /\ ~ctx[c]
          /\ \E p \in Pids :
                /\ proc[p] = "none"
                /\ proc' = [proc EXCEPT ![p] = "running"]
                /\ parent' = [parent EXCEPT ![p] = c]
                /\ cmdPid' = Upd(cmdPid, c, p)
                /\ launched' = Upd(launched, c, launched[c] \cup {p})
          /\ pc' = Upd(pc, c, "open")
          /\ UNCHANGED err
       \/ /\ \E e \in {"ErrLaunch"} \cup (IF ctx[c] THEN {"ErrCtx"} ELSE {}) :
                Return(c, e)
          /\ UNCHANGED <<proc, parent, cmdPid, launched>>
    /\ UNCHANGED <<now, boot, file, privileged, cfgVars, sysinfo, ctx,
                   checkVars, op, released, branch, killed, pre, prev, nfo>>

\* What a write of data at offset 0 leaves of a file that holds old.
Overwrite(old, data) ==
    IF Len(old) > Len(data)
    THEN data \o SubSeq(old, Len(data) + 1, Len(old))
    ELSE data

\* start, lines 275-278: ioutil.WriteFile begins with os.OpenFile, which
\* creates the pid file or truncates it.  Until the pid is written the file
\* is there and empty.
WriteOpen(c) ==
    /\ pc[c] = "open"
    /\ \E o \in OpenOutcomes :
          IF o = "ok"
          THEN /\ file' = [exists |-> TRUE, content |-> <<>>, mtime |-> now]
               /\ pc' = Upd(pc, c, "write")
          ELSE /\ file' = file
               /\ pc' = Upd(pc, c, "killcmd")
    /\ UNCHANGED <<now, boot, proc, parent, privileged, cfgVars, sysinfo, ctx,
                   checkVars, callVars, err, nfo>>

\* start, lines 278-287: ioutil.WriteFile writes the pid and closes the file;
\* when both succeed, cmd.Process.Release() follows.  A failed write leaves
\* the file as it is, a failed close leaves the pid written.  The write goes
\* to the file that was opened, at its beginning; a file removed since then
\* is not created again.
WritePid(c) ==
    /\ pc[c] = "write"
    /\ \E w \in WriteOutcomes :
          /\ file' = IF w = "writefail" \/ ~file.exists THEN file
                     ELSE [exists |-> TRUE,
                           content |-> Overwrite(file.content, Itoa(cmdPid[c])),
                           mtime |-> now]
          /\ IF w = "ok"
             THEN /\ released' = Upd(released, c, TRUE)
                  /\ pc' = Upd(pc, c, "check")
             ELSE /\ pc' = Upd(pc, c, "killcmd")
                  /\ UNCHANGED released
    /\ UNCHANGED <<now, boot, proc, parent, privileged, cfgVars, sysinfo, ctx,
                   checkVars, op, cmdPid, branch, launched, killed, pre, prev,
                   err, nfo>>

\* start, line 280, cfg.kill lines 251-254: after the error of
\* ioutil.WriteFile, ps.Kill() on the child.
WriteFailed(c) ==
    /\ pc[c] = "killcmd"
    /\ proc' = Kill(cmdPid[c], released[c])
    /\ parent' = Orphan(proc')
    /\ pc' = Upd(pc, c, "waitcmd")
    /\ UNCHANGED <<now, boot, file, privileged, cfgVars, sysinfo, ctx,
                   checkVars, callVars, err, nfo>>

\* cfg.kill lines 255-256 and start line 281: ps.Wait() has the child that
\* ended, and start returns the error of the write.
WriteFailedWait(c) ==
    /\ pc[c] = "waitcmd"
    /\ proc' = Reap(proc, c, cmdPid[c])
    /\ parent' = Orphan(proc')
    /\ Return(c, "ErrWrite")
    /\ UNCHANGED <<now, boot, file, privileged, cfgVars, sysinfo, ctx,
                   checkVars, callVars, nfo>>

\* ---------------------------------------------------------------- check
\* check, lines 212-217
CheckBegin(c) ==
    /\ pc[c] = "check"
    /\ \E fails \in BOOLEAN :
          LET r == getProcess(sysinfo[c], fails)
          IN /\ sysinfo' = Upd(sysinfo, c, r.sys)
             /\ IF r.ps = NoProcess
                THEN /\ CheckReturn(c, "ErrExitedBeforeChecks")
                     /\ UNCHANGED checkVars
                ELSE /\ ps' = Upd(ps, c, r.ps)
                     /\ unready' = Upd(unready, c, nchecks)
                     /\ ready' = Upd(ready, c, [i \in 1..nchecks |-> FALSE])
                     /\ invoked' = Upd(invoked, c, [i \in 1..nchecks |-> 0])
                     /\ probed' = Upd(probed, c, <<>>)
                     /\ pc' = Upd(pc, c, "poll")
                     /\ UNCHANGED <<osVars, err, nfo, rounds>>
    /\ UNCHANGED <<ctx, callVars>>

\* check, lines 219-240: the context test and one round of the checks.  The
\* context is tested before the round only: it may be done by the time the
\* checks have answered.
PollRound(c) ==
    /\ pc[c] = "poll"
    /\ IF ctx[c]
       THEN /\ CheckReturn(c, "ErrCtx")
            /\ UNCHANGED <<ctx, checkVars>>
       ELSE /\ rounds[c] < MaxRounds
            /\ \E late \in BOOLEAN : ctx' = Upd(ctx, c, late)
            /\ \E outs \in [1..nchecks -> Outcomes] :
                  LET st == RunChecks(1, outs,
                                [ready |-> ready[c], unready |-> unready[c],
                                 invoked |-> invoked[c], err |-> "nil",
                                 round |-> rounds[c] + 1,
                                 log |-> probed[c]])
                  IN /\ ready' = Upd(ready, c, st.ready)
                     /\ unready' = Upd(unready, c, st.unready)
                     /\ invoked' = Upd(invoked, c, st.invoked)
                     /\ probed' = Upd(probed, c, st.log)
                     /\ rounds' = Upd(rounds, c, rounds[c] + 1)
                     /\ IF st.err # "nil" THEN CheckReturn(c, st.err)
                        ELSE IF AllChecksPassed(st.unready) THEN CheckReturn(c, "nil")
                        ELSE /\ pc' = Upd(pc, c, "sleep")
                             /\ UNCHANGED <<osVars, err, nfo>>
            /\ UNCHANGED ps
    /\ UNCHANGED <<sysinfo, callVars>>

\* check, lines 241-245: after the sleep, is the process still there?
SleepCheck(c) ==
    /\ pc[c] = "sleep"
    /\ IF Signal0(ps[c])
       THEN /\ pc' = Upd(pc, c, "poll")
            /\ UNCHANGED <<osVars, err, nfo>>
       ELSE CheckReturn(c, "ErrExited")
    /\ UNCHANGED <<sysinfo, ctx, checkVars, callVars>>

\* ----------------------------------------------------------------- stop
\* stop, lines 297-301
StopBegin(c) ==
    \E fails \in BOOLEAN :
       LET r == getProcess(sysinfo[c], fails)
       IN /\ Begin(c, "stop",
                   IF r.ps # NoProcess THEN "running" ELSE "notrunning",
                   r.ps)
          /\ sysinfo' = Upd(sysinfo, c, r.sys)
          /\ IF r.ps = NoProcess
             THEN /\ file' = NoFile
                  /\ Return(c, "nil")
                  /\ UNCHANGED <<now, boot, proc, parent, privileged, cfgVars>>
             ELSE /\ pc' = Upd(pc, c, "kill")
                  /\ UNCHANGED <<osVars, err>>
          /\ UNCHANGED <<ctx, nfo>>

\* stop, lines 302-305: ps.Kill().  It fails when the process is gone by now.
StopKill(c) ==
    /\ pc[c] = "kill"
    /\ IF proc[ps[c]] = "none"
       THEN /\ Return(c, "ErrKill")
            /\ UNCHANGED <<proc, parent, killed>>
       ELSE /\ proc' = SigKill(proc, ps[c])
            /\ parent' = Orphan(proc')
            /\ killed' = Upd(killed, c, killed[c] \cup {ps[c]})
            /\ pc' = Upd(pc, c, "wait")
            /\ UNCHANGED err
    /\ UNCHANGED <<now, boot, file, privileged, cfgVars, sysinfo, ctx,
                   checkVars, op, cmdPid, released, branch, launched, pre, prev, nfo>>

\* stop that neither waits for the killed process nor removes the pid file.
StopWaitKeeps(c) ==
    /\ pc[c] = "wait"
    /\ Return(c, "nil")
    /\ UNCHANGED <<osVars, sysinfo, ctx, checkVars, callVars, nfo>>

\* stop that returns the error of ps.Wait(), the deferred removal done.
StopWaitChecked(c) ==
    /\ pc[c] = "wait"
    /\ proc' = Reap(proc, c, ps[c])
    /\ parent' = Orphan(proc')
    /\ IF parent[ps[c]] = c
       THEN /\ pc' = Upd(pc, c, "remove")
            /\ UNCHANGED <<file, err>>
       ELSE /\ file' = NoFile
            /\ Return(c, "ErrWait")
    /\ UNCHANGED <<now, boot, privileged, cfgVars, sysinfo, ctx, checkVars,
                   callVars, nfo>>

\* stop, line 307: ps.Wait(), its error dropped.  It reaps the process when
\* that is a child of the invocation and fails otherwise.
StopWait(c) ==
    /\ pc[c] = "wait"
    /\ proc' = Reap(proc, c, ps[c])
    /\ parent' = Orphan(proc')
    /\ pc' = Upd(pc, c, "remove")
    /\ UNCHANGED <<now, boot, file, privileged, cfgVars, sysinfo, ctx,
                   checkVars, callVars, err, nfo>>

\* stop, lines 306 and 308: on the way out the deferred
\* os.RemoveAll(cfg.pidFile), and the return of nil.
StopRemove(c) ==
    /\ pc[c] = "remove"
    /\ file' = NoFile
    /\ Return(c, "nil")
    /\ UNCHANGED <<now, boot, proc, parent, privileged, cfgVars, sysinfo, ctx,
                   checkVars, callVars, nfo>>

\* --------------------------------------------------------------- Status
\* A snapshot that never stores Running.
StatusOfNoRunning(r, alive) ==
    [pid |-> r.pid, started |-> r.mtime, running |-> FALSE, ready |-> FALSE]

\* Status, lines 314-320: the snapshot before the checks are looked at;
\* r is what getPIDFile returned, alive what getProcessByPID answers.
StatusOf(r, alive) ==
    [pid |-> r.pid, started |-> r.mtime,
     running |-> r.pid # 0 /\ alive, ready |-> FALSE]

\* A Status that clears away the pid file of a service it finds not running.
StatusBeginCleans(c) ==
    \E fails \in BOOLEAN :
       LET r == getPIDFile
           sys == IF r.pid = 0 THEN sysinfo[c] ELSE getSysinfo(sysinfo[c], fails)
           running == getProcessByPID(r.pid, r.mtime, sys) # NoProcess
       IN /\ Begin(c, "status",
                   IF r.pid # 0 /\ running THEN "running" ELSE "notrunning",
                   NoProcess)
          /\ sysinfo' = Upd(sysinfo, c, sys)
          /\ nfo' = Upd(nfo, c, StatusOf(r, running))
          /\ IF r.pid # 0 /\ running
             THEN /\ pc' = Upd(pc, c, "check")
                  /\ UNCHANGED <<err, file>>
             ELSE /\ Return(c, "nil")
                  /\ file' = NoFile
          /\ UNCHANGED <<now, boot, proc, parent, privileged, cfgVars, ctx>>

\* Status, lines 314-323; with the service running it goes on to cfg.check.
\* getProcessByPID, and with it getSysinfo, is reached unless the pid is 0.
StatusBegin(c) ==
    \E fails \in BOOLEAN :
       LET r == getPIDFile
           sys == IF r.pid = 0 THEN sysinfo[c] ELSE getSysinfo(sysinfo[c], fails)
           running == getProcessByPID(r.pid, r.mtime, sys) # NoProcess
       IN /\ Begin(c, "status",
                   IF r.pid # 0 /\ running THEN "running" ELSE "notrunning",
                   NoProcess)
          /\ sysinfo' = Upd(sysinfo, c, sys)
          /\ nfo' = Upd(nfo, c, StatusOf(r, running))
          /\ IF r.pid # 0 /\ running
             THEN /\ pc' = Upd(pc, c, "check")
                  /\ UNCHANGED err
             ELSE Return(c, "nil")
          /\ UNCHANGED <<osVars, ctx>>

\* ------------------------------------------------------- Status.String
\* Names a service can be configured with.
Names == {"nats", ""}

\* String without the return of the not-running branch.
StringNoReturn(name, n) ==
    LET buf0 == name
        buf1 == IF n.pid = 0 THEN buf0 \o " is not running"
                ELSE IF ~n.running
                THEN buf0 \o " had pid " \o Join(Itoa(n.pid))
                          \o " and is not running"
                ELSE buf0 \o " has pid " \o Join(Itoa(n.pid))
    IN IF n.pid = 0 THEN buf1
       ELSE IF n.ready THEN buf1 \o " and is ready"
       ELSE buf1 \o " and is running but not ready"

\* Status.String, lines 358-379: the buffer after each WriteString.
String(name, n) ==
    LET buf0 == name
    IN IF n.pid = 0 THEN buf0 \o " is not running"
       ELSE IF ~n.running
       THEN buf0 \o " had pid " \o Join(Itoa(n.pid)) \o " and is not running"
       ELSE LET buf1 == buf0 \o " has pid " \o Join(Itoa(n.pid))
            IN IF n.ready THEN buf1 \o " and is ready"
               ELSE buf1 \o " and is running but not ready"

\* ------------------------------------------------------ the environment
\* Nothing else happens between a call's return and its caller seeing it.
Quiet == \A c \in Callers : pc[c] # "returned"

\* The pids a call in progress looks at or has launched.
Watched(c) == {getPIDFile.pid, ps[c], cmdPid[c]}

\* A process ends on its own.  During a call only the exits of the
\* processes the call deals with are told apart from exits before it.
ProcExit(p) ==
    /\ Quiet
    /\ proc[p] = "running"
    /\ \A c \in Callers : pc[c] # "idle" => p \in Watched(c)
    /\ proc' = [proc EXCEPT ![p] = IF parent[p] \in Callers THEN "zombie"
                                   ELSE "none"]
    /\ parent' = Orphan(proc')
    /\ UNCHANGED <<now, boot, file, privileged, cfgVars, sysinfo, pc, ctx,
                   checkVars, callVars, err, nfo>>

\* The clock advances.
Tick ==
    /\ Quiet
    /\ now < boot + TicksPerSec + MaxTicks
    /\ now' = now + 1
    /\ UNCHANGED <<boot, file, proc, parent, privileged, cfgVars, sysinfo, pc,
                   ctx, checkVars, callVars, err, nfo>>

\* The context of a call in progress is cancelled or times out.  Between
\* cmd.Start and Release, exec.CommandContext kills the command it started.
Cancel(c) ==
    /\ Quiet
    /\ pc[c] # "idle"
    /\ ~ctx[c]
    /\ ctx' = Upd(ctx, c, TRUE)
    /\ proc' = IF cmdPid[c] # 0 /\ ~released[c]
               THEN SigKill(proc, cmdPid[c]) ELSE proc
    /\ parent' = Orphan(proc')
    /\ UNCHANGED <<now, boot, file, privileged, cfgVars, sysinfo, pc,
                   checkVars, callVars, err, nfo>>

\* The caller has the result of its call.  The mage invocation then either
\* goes on to another call (mg.SerialCtxDeps), unless its context is done, or
\* ends, and another one takes its place: its children go to init (which
\* reaps the dead ones), its context is gone and the uptime is not read yet.
Done(c) ==
    /\ pc[c] = "returned"
    /\ pc' = Upd(pc, c, "idle")
    /\ prev' = IF op[c] = "status" THEN prev
               ELSE Upd(prev, c, [op |-> op[c], ok |-> err[c] = "nil"])
    /\ \E exit \in {TRUE, ctx[c]} :
          IF exit
          THEN /\ proc' = [p \in Pids |-> IF parent[p] = c /\ proc[p] = "zombie"
                                          THEN "none" ELSE proc[p]]
               /\ parent' = [p \in Pids |-> IF parent[p] = c THEN 0
                                            ELSE parent[p]]
               /\ ctx' = Upd(ctx, c, FALSE)
               /\ sysinfo' = Upd(sysinfo, c, NoSysinfo)
          ELSE UNCHANGED <<proc, parent, ctx, sysinfo>>
    /\ op' = Upd(op, c, "none")
    /\ branch' = Upd(branch, c, "none")
    /\ cmdPid' = Upd(cmdPid, c, 0)
    /\ released' = Upd(released, c, FALSE)
    /\ launched' = Upd(launched, c, {})
    /\ killed' = Upd(killed, c, {})
    /\ pre' = Upd(pre, c, NoPre)
    /\ ps' = Upd(ps, c, NoProcess)
    /\ ready' = Upd(ready, c, <<>>)
    /\ unready' = Upd(unready, c, 0)
    /\ rounds' = Upd(rounds, c, 0)
    /\ invoked' = Upd(invoked, c, <<>>)
    /\ probed' = Upd(probed, c, <<>>)
    /\ err' = Upd(err, c, "nil")
    /\ nfo' = Upd(nfo, c, NoStatus)
    /\ UNCHANGED <<now, boot, file, privileged, cfgVars>>

\* ------------------------------------------------------ the specification
\* One mage invocation at a time drives the service.
Next ==
    \/ \E c \in Solo : StartBegin(c)
    \/ \E c \in Solo : Launch(c)
    \/ \E c \in Solo : WriteOpen(c)
    \/ \E c \in Solo : WritePid(c)
    \/ \E c \in Solo : WriteFailed(c)
    \/ \E c \in Solo : WriteFailedWait(c)
    \/ \E c \in Solo : CheckBegin(c)
    \/ \E c \in Solo : PollRound(c)
    \/ \E c \in Solo : SleepCheck(c)
    \/ \E c \in Solo : StopBegin(c)
    \/ \E c \in Solo : StopKill(c)
    \/ \E c \in Solo : StopWait(c)
    \/ \E c \in Solo : StopRemove(c)
    \/ \E c \in Solo : StatusBegin(c)
    \/ \E c \in Solo : Cancel(c)
    \/ \E c \in Solo : Done(c)
    \/ \E p \in Pids : ProcExit(p)
    \/ Tick

Spec == Init /\ [][Next]_vars

\* Two mage invocations call start on the same service once each, their
\* steps interleaved; no pid file yet, no process running, at most one
\* readiness check.
InitRace ==
    /\ Init
    /\ file = NoFile
    /\ \A p \in Pids : proc[p] = "none"
    /\ nchecks <= 1

NextRace ==
    \/ \E c \in Callers : StartBegin(c)
    \/ \E c \in Callers : Launch(c)
    \/ \E c \in Callers : WriteOpen(c)
    \/ \E c \in Callers : WritePid(c)
    \/ \E c \in Callers : WriteFailed(c)
    \/ \E c \in Callers : WriteFailedWait(c)
    \/ \E c \in Callers : CheckBegin(c)
    \/ \E c \in Callers : PollRound(c)
    \/ \E c \in Callers : SleepCheck(c)
    \/ Tick

SpecRace == InitRace /\ [][NextRace]_vars

\* ------------------------------------------------------ the options of New
Programs == {"nats-server", "true"}
ArgWords == {"-js", "-m"}
Dirs == {"", "var/nats"}

\* What Run can be given after the name: nothing (the variadic parameter is
\* then nil) or a slice of up to MaxArgs words.
ArgInputs ==
    {Nil} \cup { Slice(l) : l \in UNION { [1..n -> ArgWords] : n \in 0..MaxArgs } }

\* Run that stores the arguments as they come.
RunKeepsNil(r, name, args) ==
    IF ~r.args.isnil THEN [panic |-> TRUE, run |-> r]
    ELSE [panic |-> FALSE, run |-> [r EXCEPT !.name = name, !.args = args]]

\* Run, lines 63-73, applied to a configuration whose cfg.run is r.
Run(r, name, args) ==
    IF ~r.args.isnil THEN [panic |-> TRUE, run |-> r]
    ELSE [panic |-> FALSE,
          run |-> [r EXCEPT !.name = name,
                            !.args = IF args.isnil THEN Slice(<<>>) ELSE args]]

\* New applies a Run option.
OptRun ==
    /\ ~panicked
    /\ \E name \in Programs, args \in ArgInputs :
          LET o == Run(run, name, args)
          IN /\ run' = o.run
             /\ panicked' = o.panic
    /\ runs' = runs + 1
    /\ UNCHANGED <<now, boot, file, proc, parent, privileged, nchecks,
                   sysinfo, pc, ctx, checkVars, callVars, err, nfo>>

\* New applies a Check option with one check.
OptCheck ==
    /\ ~panicked
    /\ nchecks < MaxChecks
    /\ nchecks' = nchecks + 1
    /\ UNCHANGED <<now, boot, file, proc, parent, privileged, run, runs,
                   panicked, sysinfo, pc, ctx, checkVars, callVars, err, nfo>>

\* New applies a Dir option.
OptDir ==
    /\ ~panicked
    /\ \E path \in Dirs : run' = [run EXCEPT !.dir = path]
    /\ UNCHANGED <<now, boot, file, proc, parent, privileged, nchecks, runs,
                   panicked, sysinfo, pc, ctx, checkVars, callVars, err, nfo>>

\* New, line 28: the zero config, before any option is applied; nothing of
\* the service exists yet.
InitConfig ==
    /\ boot = TicksPerSec
    /\ now = boot + TicksPerSec
    /\ sysinfo = [c \in Callers |-> NoSysinfo]
    /\ file = NoFile
    /\ proc = [p \in Pids |-> "none"]
    /\ parent = [p \in Pids |-> 0]
    /\ privileged = FALSE
    /\ nchecks = 0
    /\ run = [name |-> "", args |-> Nil, dir |-> ""]
    /\ runs = 0
    /\ panicked = FALSE
    /\ pc = [c \in Callers |-> "idle"]
    /\ op = [c \in Callers |-> "none"]
    /\ ctx = [c \in Callers |-> FALSE]
    /\ ps = [c \in Callers |-> NoProcess]
    /\ cmdPid = [c \in Callers |-> 0]
    /\ released = [c \in Callers |-> FALSE]
    /\ ready = [c \in Callers |-> <<>>]
    /\ unready = [c \in Callers |-> 0]
    /\ rounds = [c \in Callers |-> 0]
    /\ err = [c \in Callers |-> "nil"]
    /\ nfo = [c \in Callers |-> NoStatus]
    /\ branch = [c \in Callers |-> "none"]
    /\ invoked = [c \in Callers |-> <<>>]
    /\ probed = [c \in Callers |-> <<>>]
    /\ launched = [c \in Callers |-> {}]
    /\ killed = [c \in Callers |-> {}]
    /\ pre = [c \in Callers |-> NoPre]
    /\ prev = [c \in Callers |-> NoCall]

NextConfig ==
    \/ OptRun
    \/ OptCheck
    \/ OptDir

SpecConfig == InitConfig /\ [][NextConfig]_vars

\* ------------------------------------------------------------ properties
\* What a call found when it began, in the words of the properties.
PreParsed(c) == pre[c].file.exists /\ ~Atoi(pre[c].file.content).err
PrePid(c) == IF PreParsed(c) THEN Atoi(pre[c].file.content).val ELSE 0
Returned(c, o) == pc[c] = "returned" /\ op[c] = o
Records(f, p) == f.exists /\ ~Atoi(f.content).err /\ Atoi(f.content).val = p

\* The invocation has the uptime of the system: unix.Sysinfo did not fail.
UptimeKnown(c) == ~sysinfo[c].err

\* When the call began, the age of the pid file exceeded the uptime the
\* invocation has: the uptime it read at its first liveness check, in this
\* call or in an earlier one.
Stale(c) ==
    /\ pre[c].file.exists
    /\ sysinfo[c].set /\ UptimeKnown(c)
    /\ pre[c].now - pre[c].file.mtime > sysinfo[c].uptime * TicksPerSec

\* The pid file names no process that lives: it is missing or malformed, its
\* pid is below 2, its age exceeds the uptime, or no process has its pid.
Unresolved(c) ==
    \/ ~PreParsed(c)
    \/ PrePid(c) < 2
    \/ Stale(c)
    \/ PrePid(c) \notin Pids
    \/ pre[c].proc[PrePid(c)] = "none"

\* The age of the pid file exceeds the uptime and its pid is that of a
\* process which is running.
RebootedLive(c) ==
    /\ PreParsed(c)
    /\ PrePid(c) \in Pids
    /\ pre[c].proc[PrePid(c)] = "running"
    /\ Stale(c)

\* What an invocation that has yet to read the uptime makes of the pid file.
Resolved == getProcess(NoSysinfo, FALSE).ps

\* The process start waits for: the one it found running or the one it launched.
Managed(c) == IF branch[c] = "running" THEN PrePid(c) ELSE cmdPid[c]

\* start returned an error of its wait-for-ready step.
WaitFailed(c) ==
    \/ err[c] \in HardErrors \cup {"ErrExited", "ErrExitedBeforeChecks"}
    \/ err[c] = "ErrCtx" /\ (branch[c] = "running" \/ cmdPid[c] # 0)

\* check ran a round after which every check had answered nil.
AllReady(c) ==
    /\ ps[c] # NoProcess
    /\ rounds[c] >= 1
    /\ \A i \in 1..nchecks : ready[c][i]

StartAllOrNothing ==
    \A c \in Callers :
        Returned(c, "start") /\ cmdPid[c] # 0 =>
            /\ WaitFailed(c) => proc[Managed(c)] # "running" /\ ~file.exists
            /\ err[c] = "nil" => Records(file, Managed(c))

\* C3: stop on a pid file that resolves to no live process signals nothing,
\* succeeds and leaves no pid file.  A pid file is stale when its age exceeds
\* the uptime the invocation has.
StopUnresolvedIsNoop ==
    \A c \in Callers :
        Returned(c, "stop") /\ Unresolved(c) =>
            /\ killed[c] = {}
            /\ proc = pre[c].proc
            /\ err[c] = "nil"
            /\ ~file.exists

StopUnresolvedWitness ==
    \E c \in Callers :
        /\ Returned(c, "stop") /\ Unresolved(c)
        /\ PreParsed(c) /\ PrePid(c) \in Pids
        /\ pre[c].file.mtime >= boot

\* C4: no step of a Status call changes the pid file or the process table,
\* launches or kills anything.
StatusStep(c) == op'[c] = "status" /\ pc'[c] # pc[c]

StatusNeverMutates ==
    [][\A c \in Callers :
          StatusStep(c) =>
              /\ file' = file
              /\ proc' = proc
              /\ launched'[c] = {}
              /\ killed'[c] = {}]_vars

StatusNeverMutatesWitness ==
    \E c \in Callers :
        /\ Returned(c, "status")
        /\ file.exists
        /\ nfo[c].pid # 0
        /\ ~nfo[c].running

\* C5: in every snapshot ready implies running and running implies pid # 0.
StatusOrdered ==
    \A c \in Callers :
        /\ nfo[c].ready => nfo[c].running
        /\ nfo[c].running => nfo[c].pid # 0

StatusOrderedWitness ==
    \E c \in Callers : Returned(c, "status") /\ nfo[c].ready

\* C6 (as stated): with pid 0 or 1 in the pid file the service is reported as
\* not running: Status says running = false, start does not take the
\* already-running path, stop signals nothing.
LowPidNeverRunning ==
    \A c \in Callers :
        pc[c] = "returned" /\ PreParsed(c) /\ PrePid(c) \in {0, 1} =>
            /\ op[c] = "status" => ~nfo[c].running
            /\ op[c] = "start" => branch[c] = "notrunning"
            /\ op[c] = "stop" => killed[c] = {}

\* C7: with a pid file whose age exceeds the uptime the invocation has and
\* whose pid is that of a running process, Status says running = false, stop
\* signals nothing, and start goes on to launch: it fails at the launch or
\* waits for a process it launched itself.
RebootedNeverRunning ==
    \A c \in Callers :
        pc[c] = "returned" /\ RebootedLive(c) =>
            /\ op[c] = "status" => ~nfo[c].running
            /\ op[c] = "stop" => killed[c] = {} /\ proc = pre[c].proc
            /\ op[c] = "start" =>
                  /\ branch[c] = "notrunning"
                  /\ launched[c] = {} => err[c] \in {"ErrLaunch", "ErrCtx"}
                  /\ ps[c] # NoProcess => ps[c] \in launched[c]

RebootedNeverRunningWitness ==
    \E c \in Callers :
        /\ Returned(c, "start") /\ RebootedLive(c)
        /\ proc[PrePid(c)] = "running"
        /\ launched[c] # {}
        /\ err[c] = "nil"

\* C8 (as stated): a Status call runs every check at most once and does not
\* poll.  Stated here for an invocation that has the uptime of the system.
StatusChecksOnce ==
    \A c \in Callers :
        Returned(c, "status") /\ UptimeKnown(c) =>
            /\ rounds[c] <= 1
            /\ \A i \in DOMAIN invoked[c] : invoked[c][i] <= 1

\* C9: start never returns leaving a process it launched running without a
\* pid file that records it; when the pid file could not be written, start
\* fails and the process it launched is gone.
NoUnrecordedProcess ==
    \A c \in Callers :
        Returned(c, "start") /\ cmdPid[c] # 0 =>
            /\ proc[cmdPid[c]] = "running" => Records(file, cmdPid[c])
            /\ ~Records(file, cmdPid[c]) =>
                  err[c] = "ErrWrite" /\ proc[cmdPid[c]] = "none"

NoUnrecordedProcessWitness ==
    \E c \in Callers :
        /\ Returned(c, "start") /\ cmdPid[c] # 0
        /\ err[c] = "ErrWrite"
        /\ file.exists /\ file.content = <<>>

\* C10 (as stated): a snapshot with pid 0 has the zero time and is neither
\* running nor ready.
ZeroPidZeroStatus ==
    \A c \in Callers :
        Returned(c, "status") /\ nfo[c].pid = 0 =>
            /\ nfo[c].started = ZeroTime
            /\ ~nfo[c].running
            /\ ~nfo[c].ready

\* start got as far as its wait-for-ready step.
WaitReached(c) == branch[c] = "running" \/ released[c]

\* C11 (as stated): when the managed process has exited before every check
\* answered nil, start fails with one of the process-exited errors, and the
\* pid file is then missing or resolves to no process.  Stated here for a
\* wait with at least one check (the round that ends a wait makes its last
\* check pass, so the process was gone before all had passed), whose context
\* is not done and in which no check failed hard, by an invocation that has
\* the uptime of the system.
StartFailsOnExit ==
    \A c \in Callers :
        /\ Returned(c, "start") /\ WaitReached(c)
        /\ UptimeKnown(c)
        /\ nchecks >= 1
        /\ proc[Managed(c)] # "running"
        /\ ~ctx[c] /\ err[c] \notin HardErrors
        => /\ err[c] \in {"ErrExited", "ErrExitedBeforeChecks"}
           /\ ~file.exists \/ Resolved = NoProcess

\* C12: when stop has delivered the kill signal to the process the pid file
\* resolved to, it returns success and no pid file exists, whether the
\* process was a child of the caller (the wait succeeds) or not.
StopKilledSucceeds ==
    \A c \in Callers :
        Returned(c, "stop") /\ killed[c] # {} =>
            /\ err[c] = "nil"
            /\ ~file.exists

\* stop killed a process that no call of this invocation launched.
StopKilledSucceedsWitness ==
    \E c \in Callers :
        /\ Returned(c, "stop") /\ killed[c] # {}
        /\ prev[c] = NoCall
        /\ \A p \in killed[c] : proc[p] = "none"

\* C13: a start that follows a successful stop of the same caller never takes
\* the already-running path: it goes on to launch, fails at the launch or
\* waits only for a process it launched itself, and unless the write of the
\* pid file failed, the pid file records the pid of the process it launched.
RestartLaunches ==
    \A c \in Callers :
        Returned(c, "start") /\ prev[c] = [op |-> "stop", ok |-> TRUE] =>
            /\ branch[c] = "notrunning"
            /\ launched[c] = {} => err[c] \in {"ErrLaunch", "ErrCtx"}
            /\ launched[c] # {} =>
                  /\ launched[c] = {cmdPid[c]}
                  /\ err[c] # "ErrWrite" => Records(file, cmdPid[c])
            /\ ps[c] # NoProcess => ps[c] \in launched[c]

RestartLaunchesWitness ==
    \E c \in Callers :
        /\ Returned(c, "start") /\ prev[c] = [op |-> "stop", ok |-> TRUE]
        /\ err[c] = "nil"
        /\ proc[cmdPid[c]] = "running"
        /\ Records(file, cmdPid[c])

\* C14: there is no mutual exclusion between invocations: a start that begins
\* while another start has launched its process and not yet written the pid
\* file, the pid file resolving to no process, passes the not-running check
\* and goes on to launch as well.
StartsNotExclusive ==
    [][\A c, d \in Callers :
          /\ c # d
          /\ pc[c] \in {"open", "write"} /\ proc[cmdPid[c]] = "running"
          /\ \A fails \in BOOLEAN :
                getProcess(sysinfo[d], fails).ps = NoProcess
          /\ pc[d] = "idle" /\ op'[d] = "start"
          => pc'[d] = "launch"]_vars

\* Both starts have launched a process, both processes run, and the pid file
\* records at most one of them.
StartsNotExclusiveWitness ==
    \E c, d \in Callers :
        /\ c # d
        /\ op[c] = "start" /\ op[d] = "start"
        /\ branch[c] = "notrunning" /\ branch[d] = "notrunning"
        /\ launched[c] # {} /\ launched[d] # {}
        /\ cmdPid[c] # cmdPid[d]
        /\ proc[cmdPid[c]] = "running" /\ proc[cmdPid[d]] = "running"
        /\ pc[c] = "returned" /\ pc[d] = "returned"
        /\ err[c] = "nil" /\ err[d] = "nil"
        /\ Records(file, cmdPid[d]) /\ ~Records(file, cmdPid[c])

\* C15: the sentence rendered for a snapshot that Status returned is the one
\* of the four forms that its pid, running and ready select.
StringForms ==
    \A c \in Callers : \A name \in Names :
        Returned(c, "status") =>
            LET n == nfo[c]
                text == String(name, n)
                pid == Join(Itoa(n.pid))
            IN /\ n.pid = 0 => text = name \o " is not running"
               /\ n.pid # 0 /\ ~n.running =>
                     text = name \o " had pid " \o pid \o " and is not running"
               /\ n.running /\ ~n.ready =>
                     text = name \o " has pid " \o pid
                                \o " and is running but not ready"
               /\ n.running /\ n.ready =>
                     text = name \o " has pid " \o pid \o " and is ready"

StringFormsWitness ==
    \E c \in Callers :
        /\ Returned(c, "status")
        /\ ~nfo[c].running
        /\ String("nats", nfo[c]) = "nats had pid -1 and is not running"

\* C16: a configuration to which the Run option has been applied twice has
\* panicked, whatever the two options were given; one Run does not panic.
RunTwicePanics ==
    /\ runs >= 2 => panicked
    /\ runs <= 1 => ~panicked

\* The first Run left no arguments, and the second one panicked.
RunTwicePanicsWitness ==
    /\ runs = 2
    /\ panicked
    /\ run.args = Slice(<<>>)

\* The wait of the call of c has returned success.
WaitSucceeded(c) ==
    \/ Returned(c, "start") /\ err[c] = "nil"
    \/ Returned(c, "status") /\ nfo[c].ready

\* C17: a wait returns success only when every configured check has
\* answered nil at least once during that wait.
SuccessNeedsAllChecks ==
    \A c \in Callers :
        WaitSucceeded(c) =>
            /\ ps[c] # NoProcess
            /\ \A i \in 1..nchecks : ready[c][i] /\ invoked[c][i] >= 1

SuccessNeedsAllChecksWitness ==
    \E c \in Callers :
        /\ WaitSucceeded(c)
        /\ nchecks = MaxChecks
        /\ invoked[c][1] = 1
        /\ invoked[c][nchecks] = MaxRounds

\* C18: within one wait, the invocations run round after round and within a
\* round in the configured order, and a check that has answered nil is not
\* invoked again.
NoReprobe ==
    \A c \in Callers :
        \A a, b \in 1..Len(probed[c]) :
            a < b =>
                /\ probed[c][a].round <= probed[c][b].round
                /\ probed[c][a].round = probed[c][b].round =>
                      probed[c][a].check < probed[c][b].check
                /\ probed[c][a].out = "ok" =>
                      probed[c][b].check # probed[c][a].check

\* The first check answered nil in the first round, and the second round
\* invoked the second check alone.
NoReprobeWitness ==
    \E c \in Callers :
        /\ nchecks = 2
        /\ Len(probed[c]) = 3
        /\ probed[c][1] = [round |-> 1, check |-> 1, out |-> "ok"]
        /\ probed[c][2].round = 1 /\ probed[c][2].check = 2
        /\ probed[c][3].round = 2 /\ probed[c][3].check = 2

\* C19: a check that fails hard ends the wait at once with its error: its
\* invocation is the last one of the wait, the call has returned without
\* another round or sleep, start returns that error, and a Status snapshot
\* is not ready.
HardErrorAborts ==
    \A c \in Callers :
        \A k \in 1..Len(probed[c]) :
            probed[c][k].out = "hard" =>
                /\ k = Len(probed[c])
                /\ pc[c] = "returned"
                /\ rounds[c] = probed[c][k].round
                /\ op[c] = "start" => err[c] = ProbeErr(probed[c][k].check)
                /\ op[c] = "status" => ~nfo[c].ready

\* In the second round the first of two checks failed hard, the second one
\* not ready yet.
HardErrorAbortsWitness ==
    \E c \in Callers :
        /\ Returned(c, "start")
        /\ nchecks = 2
        /\ Len(probed[c]) = 3
        /\ probed[c][2] = [round |-> 1, check |-> 2, out |-> "notready"]
        /\ probed[c][3] = [round |-> 2, check |-> 1, out |-> "hard"]
        /\ err[c] = ProbeErr(1)

\* C20 (as stated): when the context of start is done while the wait loop
\* runs, before every check has answered nil, the wait fails with the
\* context's error and with nothing else.  A wait that has run a round and
\* returns with the context done was cancelled in the loop; stated here for
\* a wait whose process is still there and in which no check failed hard, by
\* an invocation that has the uptime of the system.
CancelAborts ==
    \A c \in Callers :
        /\ Returned(c, "start") /\ ctx[c]
        /\ UptimeKnown(c)
        /\ rounds[c] >= 1 /\ nchecks >= 1
        /\ Signal0(ps[c])
        /\ err[c] \notin HardErrors
        => err[c] = "ErrCtx"
====
